---- MODULE Spec2Model ----
(***************************************************************************)
(* Model of the FocusPhone MDM server (backend/mdm/mdm_router.py and the   *)
(* routes that feed it): the enrollment-token / device / command store and *)
(* the check-in, command and enrollment endpoints that mutate it.          *)
(*                                                                         *)
(* Time is a discrete clock; one hour is Hour ticks.  Identifiers that the *)
(* code draws with uuid4 are modelled by the row's position (tokens,       *)
(* commands) or by the UDID (devices, whose udid column is unique).        *)
(***************************************************************************)
EXTENDS Integers, Sequences, FiniteSets, TLC

\* ---------------------------------------------------------------- bounds
MaxTokens == 2
MaxTime == 2
MaxIdLen == 2

\* ------------------------------------------------------------- constants
\* timedelta(hours=1), in clock ticks
Hour == 1

UDIDs == {"A", "B"}
\* rows of the profiles table
Profiles == {"p1"}
NoRef == "none"
\* POST /api/enrollment/token: the authenticated user and
\* CreateTokenRequest.profileId (absent, a stored profile, an id with no row)
TokenRequests ==
    {[owner |-> "u1", profile |-> NoRef], [owner |-> "u1", profile |-> "p1"],
     [owner |-> "u2", profile |-> "px"]}
NoTime == -1
NoUdid == "none"
\* None for the string columns push_magic / push_token
NoCred == "none"
\* PushMagic and Token (raw bytes) of a TokenUpdate: both present, or
\* PushMagic alone
PushCredentials ==
    {[magic |-> "m1", token |-> <<171, 205>>], [magic |-> "m1", token |-> <<>>]}
MdmStatuses == {"Idle", "Acknowledged", "Error", "NotNow"}
NoError == "none"
\* ErrorChain of a status report: absent/empty, or one descriptor
ErrorChains == {<<>>, <<"e1">>}
\* Status of a /mdm request: the four the server knows and one it does not
ReportedStatuses == MdmStatuses \cup {"CommandFormatError"}
\* ErrorChain: absent/empty, two descriptors, one descriptor
ReportedErrorChains == {<<>>, <<"e1", "e2">>, <<"e2">>}
\* the authenticated caller of the /api routes: User.id and User.role
Users == {[id |-> "u1", role |-> "user"], [id |-> "u2", role |-> "user"],
          [id |-> "root", role |-> "admin"]}
\* PushMagic and Token of a TokenUpdate, each present or absent
TokenUpdateCredentials ==
    {[magic |-> "m1", token |-> <<171, 205>>], [magic |-> "m1", token |-> <<>>],
     [magic |-> NoCred, token |-> <<171, 205>>], [magic |-> NoCred, token |-> <<>>]}

VARIABLES
    now,        \* the wall clock (datetime.utcnow / utc_now), in ticks
    devices,    \* rows of the devices table
    tokens,     \* rows of the enrollment_tokens table, in insertion order
    commands,   \* rows of the mdm_commands table, in insertion order
    pushes,     \* the calls made to send_push_notification, in order
    response,   \* the HTTP response of the request answered last
    polls,      \* /mdm requests in flight, between their awaits
    envelope,   \* a command envelope on its way from builder to reader
    checkins,   \* /checkin requests in flight, between their awaits
    push_call   \* a call of send_push_notification and what came of it

vars == <<now, devices, tokens, commands, pushes, response, polls, envelope,
          checkins, push_call>>

\* ------------------------------------------------------------- documents
\* plistlib.dumps({})
EmptyDoc == [doc |-> "empty", CommandUUID |-> 0, RequestType |-> "none"]
\* build_enrollment_profile()
EnrollDoc == [doc |-> "enroll", CommandUUID |-> 0, RequestType |-> "none"]
\* a response without a plist body (HTTP error, bare 200)
NoBody == [doc |-> "none", CommandUUID |-> 0, RequestType |-> "none"]

build_install_profile_command(command_uuid) ==
    [doc |-> "command", CommandUUID |-> command_uuid, RequestType |-> "InstallProfile"]

\* --------------------------------------------------------------- plists
\* Text is a sequence of characters; a word without special characters
\* stands as one element.  plistlib._escape, per character: line endings are
\* normalised and the XML specials become entities
EscapeChar(c) ==
    IF c = "CR" THEN "LF"
    ELSE IF c = "&" THEN "&amp;"
    ELSE IF c = "<" THEN "&lt;"
    ELSE IF c = ">" THEN "&gt;"
    ELSE c

escape(text) == [i \in 1..Len(text) |-> EscapeChar(text[i])]

\* the XML reader resolving an entity
UnescapeChar(e) ==
    IF e = "&amp;" THEN "&"
    ELSE IF e = "&lt;" THEN "<"
    ELSE IF e = "&gt;" THEN ">"
    ELSE e

unescape(text) == [i \in 1..Len(text) |-> UnescapeChar(text[i])]

\* plist values
PString(text) == [type |-> "string", v |-> text]
PData(bytes) == [type |-> "data", v |-> bytes]
PArray(items) == [type |-> "array", v |-> items]
PDict(entries) == [type |-> "dict", v |-> entries]

\* the elements of the XML document
Tag(t) == [t |-> t, v |-> <<>>]
Leaf(t, text) == [t |-> t, v |-> text]

\* sort_keys=True: the keys the envelopes use, in sorted order
KeyOrder == <<"Command", "CommandUUID", "Identifier", "Payload", "Queries", "RequestType">>

RECURSIVE write_value(_), write_entries(_, _), write_items(_, _)
write_value(value) ==
    IF value.type = "string" THEN <<Leaf("string", escape(value.v))>>
    ELSE IF value.type = "data" THEN <<Leaf("data", value.v)>>
    ELSE IF value.type = "array"
    THEN <<Tag("array")>> \o write_items(value.v, 1) \o <<Tag("/array")>>
    ELSE <<Tag("dict")>> \o write_entries(value.v, 1) \o <<Tag("/dict")>>

write_entries(entries, k) ==
    IF k > Len(KeyOrder) THEN <<>>
    ELSE (IF KeyOrder[k] \in DOMAIN entries
          THEN <<Leaf("key", escape(<<KeyOrder[k]>>))>> \o write_value(entries[KeyOrder[k]])
          ELSE <<>>) \o write_entries(entries, k + 1)

write_items(items, k) ==
    IF k > Len(items) THEN <<>>
    ELSE write_value(items[k]) \o write_items(items, k + 1)

\* plistlib.dumps (XML format)
plist_dumps(value) == <<Tag("plist")>> \o write_value(value) \o <<Tag("/plist")>>

RECURSIVE read_value(_, _), read_entries(_, _, _), read_items(_, _, _)
\* the value that starts at element i, and the position after it
read_value(doc, i) ==
    IF doc[i].t = "string"
    THEN [value |-> PString(unescape(doc[i].v)), next |-> i + 1]
    ELSE IF doc[i].t = "data"
    THEN [value |-> PData(doc[i].v), next |-> i + 1]
    ELSE IF doc[i].t = "array"
    THEN read_items(doc, i + 1, <<>>)
    ELSE read_entries(doc, i + 1, [k \in {} |-> PString(<<>>)])

read_entries(doc, i, entries) ==
    IF doc[i].t = "/dict"
    THEN [value |-> PDict(entries), next |-> i + 1]
    ELSE LET key == unescape(doc[i].v)[1]
             item == read_value(doc, i + 1)
         IN  read_entries(doc, item.next,
                          [k \in DOMAIN entries \cup {key} |->
                              IF k = key THEN item.value ELSE entries[k]])

read_items(doc, i, items) ==
    IF doc[i].t = "/array"
    THEN [value |-> PArray(items), next |-> i + 1]
    ELSE LET item == read_value(doc, i)
         IN  read_items(doc, item.next, Append(items, item.value))

\* plistlib.loads
plist_loads(doc) == read_value(doc, 2).value

\* --------------------------------------------------------------- envelopes
\* build_restriction_profile(...): the profile's bytes, base64 text in the XML
ProfileData == <<"cHJvZmlsZQ==">>
ProfileIdentifier == <<"com.focusphone.restrictions.p1">>

build_install_profile_command_plist(command_uuid, profile_data) ==
    plist_dumps(PDict(
        [k \in {"CommandUUID", "Command"} |->
            IF k = "CommandUUID" THEN PString(command_uuid)
            ELSE PDict([j \in {"RequestType", "Payload"} |->
                          IF j = "RequestType" THEN PString(<<"InstallProfile">>)
                          ELSE PData(profile_data)])]))

\* mutant: the two arguments change places
build_remove_profile_commandSwapped(command_uuid, profile_identifier) ==
    plist_dumps(PDict(
        [k \in {"CommandUUID", "Command"} |->
            IF k = "CommandUUID" THEN PString(profile_identifier)
            ELSE PDict([j \in {"RequestType", "Identifier"} |->
                          IF j = "RequestType" THEN PString(<<"RemoveProfile">>)
                          ELSE PString(command_uuid)])]))

build_remove_profile_command(command_uuid, profile_identifier) ==
    plist_dumps(PDict(
        [k \in {"CommandUUID", "Command"} |->
            IF k = "CommandUUID" THEN PString(command_uuid)
            ELSE PDict([j \in {"RequestType", "Identifier"} |->
                          IF j = "RequestType" THEN PString(<<"RemoveProfile">>)
                          ELSE PString(profile_identifier)])]))

\* the device fields a DeviceInformation command asks for
Queries ==
    <<"DeviceName", "OSVersion", "BuildVersion", "ModelName", "Model",
      "ProductName", "SerialNumber", "UDID", "BatteryLevel", "IsSupervised">>

build_device_info_command(command_uuid) ==
    plist_dumps(PDict(
        [k \in {"CommandUUID", "Command"} |->
            IF k = "CommandUUID" THEN PString(command_uuid)
            ELSE PDict([j \in {"RequestType", "Queries"} |->
                          IF j = "RequestType" THEN PString(<<"DeviceInformation">>)
                          ELSE PArray([i \in 1..Len(Queries) |-> PString(<<Queries[i]>>)])])]))

\* the three kinds of command
CommandKinds == {"InstallProfile", "RemoveProfile", "DeviceInformation"}
\* the characters of a command identifier: those of an upper-case uuid4, and
\* the XML specials
IdChars == {"A", "-", "&", "<"}
CommandIdentifiers == UNION {[1..n -> IdChars] : n \in 1..MaxIdLen}

NoEnvelope ==
    [pc |-> "none", kind |-> "none", command_uuid |-> <<>>, bytes |-> <<>>,
     CommandUUID |-> <<>>, RequestType |-> <<>>]

\* ------------------------------------------------------------- responses
\* TokenResponse of POST /api/enrollment/token
TokenDoc == [doc |-> "token", CommandUUID |-> 0, RequestType |-> "none"]

Response(code, body) == [code |-> code, body |-> body]

\* ----------------------------------------------------------------- store
\* the columns the check-in handlers read and write on EnrollmentToken
\* beyond those database.py declares
TokenLinkColumns == [last_accessed_at |-> NoTime, device_udid |-> NoUdid]

EnrollmentToken(owner, profile, expires) ==
    [owner_id |-> owner, profile_id |-> profile, expires_at |-> expires,
     is_used |-> FALSE, used_at |-> NoTime,
     last_accessed_at |-> TokenLinkColumns.last_accessed_at,
     device_udid |-> TokenLinkColumns.device_udid]

\* mutant: the expiry instant itself still counts as valid
is_validAtExpiry(tok, t) == ~tok.is_used /\ t <= tok.expires_at

\* EnrollmentToken.is_valid
is_valid(tok, t) == ~tok.is_used /\ t < tok.expires_at

\* last_checkin defaults to utc_now at insert
Device(udid) ==
    [udid |-> udid, status |-> "pending", owner_id |-> NoRef, profile_id |-> NoRef,
     push_token |-> <<>>, push_magic |-> NoCred, last_checkin |-> now]

\* mutant: the payload is built with an identifier of its own
MDMCommandOwnPayloadId(command_uuid, device_id) ==
    [command_uuid |-> command_uuid, command_type |-> "InstallProfile",
     payload |-> build_install_profile_command(command_uuid + 1),
     status |-> "pending", created_at |-> command_uuid, sent_at |-> NoTime,
     error_message |-> NoError,
     device_id |-> device_id]

\* created_at (default utc_now) only orders a device's commands; successive
\* inserts read increasing clock values, so it is modelled by the insert's rank
MDMCommand(command_uuid, device_id) ==
    [command_uuid |-> command_uuid, command_type |-> "InstallProfile",
     payload |-> build_install_profile_command(command_uuid),
     status |-> "pending", created_at |-> command_uuid, sent_at |-> NoTime,
     error_message |-> NoError,
     device_id |-> device_id]

\* select(Device).where(Device.udid == udid)
DevicesByUdid(devs, u) == {d \in devs : d.udid = u}

\* two request-handling tasks for /mdm
PollSlots == {1, 2}
IdlePoll == [pc |-> "idle", udid |-> NoUdid, next_command |-> 0, body |-> NoBody]

\* a request that holds no device object
NoDevice ==
    [udid |-> NoUdid, status |-> "none", owner_id |-> NoRef, profile_id |-> NoRef,
     push_token |-> <<>>, push_magic |-> NoCred, last_checkin |-> NoTime]

\* the /checkin requests served at the same time, each with its own session
CheckinSlots == {1, 2}
\* a slot without a request: device is the session's Device object as the
\* handler has modified it, loaded the row as the session last read or wrote it
IdleCheckin ==
    [pc |-> "idle", udid |-> NoUdid, device |-> NoDevice, loaded |-> NoDevice,
     enrollment_token |-> 0]

\* no call of send_push_notification under way
NoPushCall ==
    [pc |-> "none", push_token |-> <<>>, push_magic |-> NoCred,
     apns |-> [cert |-> FALSE, key |-> FALSE, http |-> "none"],
     requested |-> FALSE, result |-> FALSE]

Init ==
    /\ now = 0
    /\ devices = {}
    /\ tokens = <<>>
    /\ commands = <<>>
    /\ pushes = <<>>
    /\ response = Response(0, NoBody)
    /\ polls = [p \in PollSlots |-> IdlePoll]
    /\ envelope = NoEnvelope
    /\ checkins = [p \in CheckinSlots |-> IdleCheckin]
    /\ push_call = NoPushCall

\* the wall clock advances between requests
Tick ==
    /\ now < MaxTime
    /\ now' = now + 1
    /\ UNCHANGED <<push_call, checkins, envelope, polls, devices, tokens, commands, pushes, response>>

\* POST /api/enrollment/token
create_enrollment_token(owner, profile) ==
    /\ Len(tokens) < MaxTokens
    /\ tokens' = Append(tokens, EnrollmentToken(owner, profile, now + Hour))
    /\ response' = Response(200, TokenDoc)
    /\ UNCHANGED <<push_call, checkins, envelope, polls, now, devices, commands, pushes>>

\* mutant: the access stamp is written before the token is validated
get_enrollment_profileStampsFirst(token) ==
    IF token \notin DOMAIN tokens
    THEN /\ response' = Response(400, NoBody)
         /\ UNCHANGED <<push_call, checkins, envelope, polls, now, devices, tokens, commands, pushes>>
    ELSE /\ tokens' = [tokens EXCEPT ![token].last_accessed_at = now]
         /\ response' = IF is_valid(tokens[token], now)
                        THEN Response(200, EnrollDoc) ELSE Response(400, NoBody)
         /\ UNCHANGED <<push_call, checkins, envelope, polls, now, devices, commands, pushes>>

\* GET /enroll/{token}; token 0 stands for a string that names no row
get_enrollment_profile(token) ==
    IF token \notin DOMAIN tokens \/ ~is_valid(tokens[token], now)
    THEN /\ response' = Response(400, NoBody)
         /\ UNCHANGED <<push_call, checkins, envelope, polls, now, devices, tokens, commands, pushes>>
    ELSE /\ tokens' = [tokens EXCEPT ![token].last_accessed_at = now]
         /\ response' = Response(200, EnrollDoc)
         /\ UNCHANGED <<push_call, checkins, envelope, polls, now, devices, commands, pushes>>

\* ------------------------------------------------------ POST /checkin
\* mutant: the query forgets the recency cutoff
EligibleTokensAnyAge(toks, t) ==
    {i \in DOMAIN toks :
        /\ toks[i].is_used = FALSE
        /\ toks[i].last_accessed_at # NoTime
        /\ toks[i].device_udid = NoUdid}

\* the tokens handle_authenticate's query admits, before ordering
EligibleTokens(toks, t) ==
    {i \in DOMAIN toks :
        /\ toks[i].is_used = FALSE
        /\ toks[i].last_accessed_at # NoTime
        /\ toks[i].last_accessed_at >= t - Hour
        /\ toks[i].device_udid = NoUdid}

\* mutant: the query orders ascending and returns the oldest fetch
CorrelatedTokensOldest(toks, t) ==
    LET eligible == EligibleTokens(toks, t)
    IN  IF eligible = {} THEN {0}
        ELSE {i \in eligible :
                \A j \in eligible : toks[j].last_accessed_at >= toks[i].last_accessed_at}

\* order_by(last_accessed_at.desc()).limit(1): the rows the query may return
\* (equal timestamps are ordered arbitrarily); 0 stands for None
CorrelatedTokens(toks, t) ==
    LET eligible == EligibleTokens(toks, t)
    IN  IF eligible = {} THEN {0}
        ELSE {i \in eligible :
                \A j \in eligible : toks[j].last_accessed_at <= toks[i].last_accessed_at}

\* mutant: without a token the update clears the owner and profile
AuthenticateDevicesClearsOwner(devs, toks, u, tok) ==
    IF DevicesByUdid(devs, u) = {}
    THEN devs \cup
         {IF tok # 0
          THEN [Device(u) EXCEPT !.owner_id = toks[tok].owner_id,
                                 !.profile_id = toks[tok].profile_id]
          ELSE Device(u)}
    ELSE {IF d.udid = u
          THEN [d EXCEPT !.owner_id = IF tok # 0 THEN toks[tok].owner_id ELSE NoRef,
                         !.profile_id = IF tok # 0 THEN toks[tok].profile_id ELSE NoRef,
                         !.status = "pending"]
          ELSE d : d \in devs}

\* the device rows after handle_authenticate's commit
AuthenticateDevices(devs, toks, u, tok) ==
    IF DevicesByUdid(devs, u) = {}
    THEN devs \cup
         {IF tok # 0
          THEN [Device(u) EXCEPT !.owner_id = toks[tok].owner_id,
                                 !.profile_id = toks[tok].profile_id]
          ELSE Device(u)}
    ELSE IF tok # 0
         THEN {IF d.udid = u
               THEN [d EXCEPT !.owner_id = toks[tok].owner_id,
                              !.profile_id = toks[tok].profile_id,
                              !.status = "pending"]
               ELSE d : d \in devs}
         ELSE devs

\* mutant: Authenticate consumes the token it links
AuthenticateTokensConsumes(toks, u, tok) ==
    IF tok # 0 THEN [toks EXCEPT ![tok].device_udid = u, ![tok].is_used = TRUE] ELSE toks

\* the token rows after handle_authenticate's commit
AuthenticateTokens(toks, u, tok) ==
    IF tok # 0 THEN [toks EXCEPT ![tok].device_udid = u] ELSE toks

\* u = NoUdid is a plist without the UDID key: no device row matches None and
\* udid[:8] raises while the new row is built, before anything is committed
handle_authenticate(u) ==
    IF u = NoUdid
    THEN /\ response' = Response(500, NoBody)
         /\ UNCHANGED <<push_call, checkins, envelope, polls, now, devices, tokens, commands, pushes>>
    ELSE \E tok \in CorrelatedTokens(tokens, now) :
            /\ devices' = AuthenticateDevices(devices, tokens, u, tok)
            /\ tokens' = AuthenticateTokens(tokens, u, tok)
            /\ response' = Response(200, EmptyDoc)
            /\ UNCHANGED <<push_call, checkins, envelope, polls, now, commands, pushes>>

HexDigit(n) ==
    <<"0", "1", "2", "3", "4", "5", "6", "7", "8", "9", "a", "b", "c", "d", "e", "f">>[n + 1]

\* bytes.hex()
RECURSIVE hex(_)
hex(bytes) ==
    IF bytes = <<>> THEN <<>>
    ELSE <<HexDigit(Head(bytes) \div 16), HexDigit(Head(bytes) % 16)>> \o hex(Tail(bytes))

\* handle_token_update, first commit: push credentials and status
TokenUpdateDevices(devs, u, magic, token) ==
    {IF d.udid = u
     THEN [d EXCEPT !.push_magic = magic,
                    !.push_token = IF token # <<>> THEN hex(token) ELSE <<>>,
                    !.status = "enrolled",
                    !.last_checkin = now]
     ELSE d : d \in devs}

\* mutant: the query forgets the is_used filter
LinkedTokensUsedToo(toks, u) ==
    {i \in DOMAIN toks : toks[i].device_udid = u}

\* select(EnrollmentToken).where(device_udid == udid).where(is_used == False)
LinkedTokens(toks, u) ==
    {i \in DOMAIN toks : toks[i].device_udid = u /\ toks[i].is_used = FALSE}

\* consume: second commit of handle_token_update
ConsumeToken(toks, i, t) ==
    [toks EXCEPT ![i].is_used = TRUE, ![i].used_at = t]

\* select(RestrictionProfile).where(id == profile_id) returned a row
ProfileResolves(profile_id) == profile_id # NoRef /\ profile_id \in Profiles

\* queue_restriction_profile: the command row it adds
QueueCommand(cmds, u) == Append(cmds, MDMCommand(Len(cmds) + 1, u))

\* what a push attempt meets: the certificate and key files present or
\* not, and the outcome of the HTTP/2 POST to APNs
ApnsOutcomes ==
    {[cert |-> TRUE, key |-> TRUE, http |-> "200"],
     [cert |-> TRUE, key |-> TRUE, http |-> "410"],
     [cert |-> TRUE, key |-> TRUE, http |-> "transport error"],
     [cert |-> FALSE, key |-> TRUE, http |-> "200"],
     [cert |-> TRUE, key |-> FALSE, http |-> "200"]}

\* every combination of certificate file, key file and what the attempt
\* meets: an HTTP status, a transport error, or a certificate that
\* ssl.load_cert_chain rejects before anything is sent
ApnsEnvironments ==
    [cert : BOOLEAN, key : BOOLEAN, http : {"200", "410", "transport error", "ssl error"}]

\* APNs reachable and the certificate in place
ApnsUp == [cert |-> TRUE, key |-> TRUE, http |-> "200"]

\* mutant: the existence of the key file is not checked before posting
PostsToApnsUncheckedKey(push_token, push_magic, apns) ==
    /\ push_token # <<>> /\ push_magic # NoCred
    /\ apns.cert
    /\ apns.http # "ssl error"

\* send_push_notification reaches client.post
PostsToApns(push_token, push_magic, apns) ==
    /\ push_token # <<>> /\ push_magic # NoCred
    /\ apns.cert /\ apns.key
    /\ apns.http # "ssl error"

\* send_push_notification: True only for an HTTP 200 from APNs; every failure,
\* an exception included, is caught and comes out as False
send_push_notification(push_token, push_magic, apns) ==
    IF push_token = <<>> \/ push_magic = NoCred THEN FALSE
    ELSE IF ~apns.cert THEN FALSE
    ELSE IF ~apns.key THEN FALSE
    ELSE apns.http = "200"

\* queue_restriction_profile: the call to send_push_notification, made only
\* when the device object carries both credentials, with its result
QueuePush(psh, d, apns) ==
    IF d.push_token # <<>> /\ d.push_magic # NoCred
    THEN Append(psh, [udid |-> d.udid, push_token |-> d.push_token,
                      push_magic |-> d.push_magic,
                      delivered |-> send_push_notification(d.push_token, d.push_magic, apns)])
    ELSE psh

\* mutant: an undelivered push fails the request
TokenUpdateResponseNeedsPush(d, apns) ==
    IF send_push_notification(d.push_token, d.push_magic, apns)
    THEN Response(200, EmptyDoc) ELSE Response(500, NoBody)

\* the answer of a TokenUpdate whose chain ran through the push attempt
TokenUpdateResponse(d, apns) == Response(200, EmptyDoc)

handle_token_update(u, magic, token, apns) ==
    LET devs1 == TokenUpdateDevices(devices, u, magic, token)
        linked == LinkedTokens(tokens, u)
    IN  IF DevicesByUdid(devices, u) = {}
        THEN /\ response' = Response(200, EmptyDoc)
             /\ UNCHANGED <<push_call, checkins, envelope, polls, now, devices, tokens, commands, pushes>>
        ELSE IF Cardinality(linked) > 1
        THEN \* scalar_one_or_none raises MultipleResultsFound after the first commit
             /\ devices' = devs1
             /\ response' = Response(500, NoBody)
             /\ UNCHANGED <<push_call, checkins, envelope, polls, now, tokens, commands, pushes>>
        ELSE IF linked = {}
        THEN /\ devices' = devs1
             /\ response' = Response(200, EmptyDoc)
             /\ UNCHANGED <<push_call, checkins, envelope, polls, now, tokens, commands, pushes>>
        ELSE LET i == CHOOSE i \in linked : TRUE
                 d == CHOOSE d \in DevicesByUdid(devs1, u) : TRUE
             IN  /\ devices' = devs1
                 /\ tokens' = ConsumeToken(tokens, i, now)
                 /\ IF ProfileResolves(tokens[i].profile_id)
                    THEN /\ commands' = QueueCommand(commands, u)
                         /\ pushes' = QueuePush(pushes, d, apns)
                         /\ response' = TokenUpdateResponse(d, apns)
                    ELSE /\ response' = Response(200, EmptyDoc)
                         /\ UNCHANGED <<commands, pushes>>
                 /\ UNCHANGED <<push_call, checkins, envelope, polls, now>>

\* mutant: check-out forgets to clear the push magic
CheckOutDevicesKeepsMagic(devs, u) ==
    {IF d.udid = u
     THEN [d EXCEPT !.status = "removed", !.push_token = <<>>]
     ELSE d : d \in devs}

\* mutant: check-out of an unknown UDID records a removed device
CheckOutDevicesCreates(devs, u) ==
    IF DevicesByUdid(devs, u) = {}
    THEN devs \cup {[Device(u) EXCEPT !.status = "removed"]}
    ELSE {IF d.udid = u
          THEN [d EXCEPT !.status = "removed", !.push_token = <<>>, !.push_magic = NoCred]
          ELSE d : d \in devs}

\* handle_checkout: the device rows after its commit
CheckOutDevices(devs, u) ==
    {IF d.udid = u
     THEN [d EXCEPT !.status = "removed", !.push_token = <<>>, !.push_magic = NoCred]
     ELSE d : d \in devs}

\* mutant: check-out also unlinks the device's tokens
handle_checkoutUnlinksTokens(u) ==
    /\ devices' = CheckOutDevices(devices, u)
    /\ tokens' = [i \in DOMAIN tokens |->
                     IF tokens[i].device_udid = u
                     THEN [tokens[i] EXCEPT !.device_udid = NoUdid] ELSE tokens[i]]
    /\ response' = Response(200, EmptyDoc)
    /\ UNCHANGED <<push_call, checkins, envelope, polls, now, commands, pushes>>

handle_checkout(u) ==
    /\ devices' = CheckOutDevices(devices, u)
    /\ response' = Response(200, EmptyDoc)
    /\ UNCHANGED <<push_call, checkins, envelope, polls, now, tokens, commands, pushes>>

\* a request body plistlib.loads rejects
Malformed ==
    [parses |-> FALSE, MessageType |-> "none", UDID |-> NoUdid,
     PushMagic |-> NoCred, Token |-> <<>>,
     Status |-> "none", CommandUUID |-> 0, ErrorChain |-> <<>>]

\* a /checkin body that parses: plist.get of the keys the handlers read
CheckinMessage(message_type, udid, push_magic, token) ==
    [Malformed EXCEPT !.parses = TRUE, !.MessageType = message_type, !.UDID = udid,
                      !.PushMagic = push_magic, !.Token = token]

\* the /checkin bodies of one device: the three message types, an
\* Authenticate without the UDID key, a type the server does not know, and a
\* body that is no plist
CheckinRequests(u) ==
    {Malformed, CheckinMessage("Authenticate", u, NoCred, <<>>),
     CheckinMessage("Authenticate", NoUdid, NoCred, <<>>),
     CheckinMessage("CheckOut", u, NoCred, <<>>),
     CheckinMessage("SetBootstrapToken", u, NoCred, <<>>)}
    \cup {CheckinMessage("TokenUpdate", u, cred.magic, cred.token) :
            cred \in TokenUpdateCredentials}

\* mutant: a message of unknown type is handled as a CheckOut
mdm_checkinUnknownChecksOut(plist) ==
    IF ~plist.parses
    THEN /\ response' = Response(400, NoBody)
         /\ UNCHANGED <<push_call, checkins, envelope, polls, now, devices, tokens, commands, pushes>>
    ELSE IF plist.MessageType = "Authenticate"
    THEN handle_authenticate(plist.UDID)
    ELSE IF plist.MessageType = "TokenUpdate"
    THEN \E apns \in ApnsOutcomes :
            handle_token_update(plist.UDID, plist.PushMagic, plist.Token, apns)
    ELSE /\ devices' = CheckOutDevices(devices, plist.UDID)
         /\ response' = Response(200, NoBody)
         /\ UNCHANGED <<push_call, checkins, envelope, polls, now, tokens, commands, pushes>>

\* PUT/POST /checkin
mdm_checkin(plist) ==
    IF ~plist.parses
    THEN /\ response' = Response(400, NoBody)
         /\ UNCHANGED <<push_call, checkins, envelope, polls, now, devices, tokens, commands, pushes>>
    ELSE IF plist.MessageType = "Authenticate"
    THEN handle_authenticate(plist.UDID)
    ELSE IF plist.MessageType = "TokenUpdate"
    THEN \E apns \in ApnsOutcomes :
            handle_token_update(plist.UDID, plist.PushMagic, plist.Token, apns)
    ELSE IF plist.MessageType = "CheckOut"
    THEN handle_checkout(plist.UDID)
    ELSE /\ response' = Response(200, NoBody)
         /\ UNCHANGED <<push_call, checkins, envelope, polls, now, devices, tokens, commands, pushes>>

\* ------------------------------------------------------------ /api routes
\* the JSON object an /api route returns
MessageDoc == [doc |-> "message", CommandUUID |-> 0, RequestType |-> "none"]

\* assign_profile: device.profile_id = profile.id; device.status = "managed"
AssignProfileDevices(devs, device_id, profile_id) ==
    {IF d.udid = device_id
     THEN [d EXCEPT !.profile_id = profile_id, !.status = "managed"]
     ELSE d : d \in devs}

\* POST /api/profiles/{profile_id}/assign (require_admin)
assign_profile(profile_id, device_id, user) ==
    IF user.role # "admin"
    THEN /\ response' = Response(403, NoBody)
         /\ UNCHANGED <<push_call, checkins, envelope, polls, now, devices, tokens, commands, pushes>>
    ELSE IF profile_id \notin Profiles \/ DevicesByUdid(devices, device_id) = {}
    THEN /\ response' = Response(404, NoBody)
         /\ UNCHANGED <<push_call, checkins, envelope, polls, now, devices, tokens, commands, pushes>>
    ELSE /\ devices' = AssignProfileDevices(devices, device_id, profile_id)
         /\ response' = Response(200, MessageDoc)
         /\ UNCHANGED <<push_call, checkins, envelope, polls, now, tokens, commands, pushes>>

\* unenroll_device: device.status = "unenrolling"
UnenrollDevices(devs, device_id) ==
    {IF d.udid = device_id THEN [d EXCEPT !.status = "unenrolling"] ELSE d : d \in devs}

\* POST /api/devices/{device_id}/unenroll
unenroll_device(device_id, user) ==
    IF DevicesByUdid(devices, device_id) = {}
    THEN /\ response' = Response(404, NoBody)
         /\ UNCHANGED <<push_call, checkins, envelope, polls, now, devices, tokens, commands, pushes>>
    ELSE IF user.role # "admin"
            /\ \A d \in DevicesByUdid(devices, device_id) : d.owner_id # user.id
    THEN /\ response' = Response(403, NoBody)
         /\ UNCHANGED <<push_call, checkins, envelope, polls, now, devices, tokens, commands, pushes>>
    ELSE /\ devices' = UnenrollDevices(devices, device_id)
         /\ response' = Response(200, MessageDoc)
         /\ UNCHANGED <<push_call, checkins, envelope, polls, now, tokens, commands, pushes>>

\* ---------------------------------------------------------- POST /mdm
\* mutant: an Acknowledged report is dropped
ReportStatusDropsAck(cmds, command_uuid, status, error_chain) ==
    IF command_uuid = 0 \/ command_uuid \notin DOMAIN cmds THEN cmds
    ELSE IF status = "Error"
    THEN [cmds EXCEPT ![command_uuid].status = "failed",
                      ![command_uuid].error_message =
                          IF error_chain # <<>> THEN error_chain[1] ELSE @]
    ELSE IF status = "NotNow"
    THEN [cmds EXCEPT ![command_uuid].status = "pending"]
    ELSE cmds

\* mutant: a NotNow report leaves the command as it is
ReportStatusDropsNotNow(cmds, command_uuid, status, error_chain) ==
    IF command_uuid = 0 \/ command_uuid \notin DOMAIN cmds THEN cmds
    ELSE IF status = "Acknowledged"
    THEN [cmds EXCEPT ![command_uuid].status = "acknowledged"]
    ELSE IF status = "Error"
    THEN [cmds EXCEPT ![command_uuid].status = "failed",
                      ![command_uuid].error_message =
                          IF error_chain # <<>> THEN error_chain[1] ELSE @]
    ELSE cmds

\* mutant: the last entry of the error chain is recorded
ReportStatusLastError(cmds, command_uuid, status, error_chain) ==
    IF command_uuid = 0 \/ command_uuid \notin DOMAIN cmds THEN cmds
    ELSE IF status = "Acknowledged"
    THEN [cmds EXCEPT ![command_uuid].status = "acknowledged"]
    ELSE IF status = "Error"
    THEN [cmds EXCEPT ![command_uuid].status = "failed",
                      ![command_uuid].error_message =
                          IF error_chain # <<>> THEN error_chain[Len(error_chain)] ELSE @]
    ELSE IF status = "NotNow"
    THEN [cmds EXCEPT ![command_uuid].status = "pending"]
    ELSE cmds

\* mutant: a report naming no stored command is applied to the newest command
ReportStatusUnknownHitsNewest(cmds, command_uuid, status, error_chain) ==
    LET c == IF command_uuid \in DOMAIN cmds THEN command_uuid ELSE Len(cmds)
    IN  IF command_uuid = 0 \/ c = 0 THEN cmds
        ELSE IF status = "Acknowledged"
        THEN [cmds EXCEPT ![c].status = "acknowledged"]
        ELSE IF status = "Error"
        THEN [cmds EXCEPT ![c].status = "failed",
                          ![c].error_message =
                              IF error_chain # <<>> THEN error_chain[1] ELSE @]
        ELSE IF status = "NotNow"
        THEN [cmds EXCEPT ![c].status = "pending"]
        ELSE cmds

\* the status report: command_uuid 0 stands for an absent CommandUUID
ReportStatus(cmds, command_uuid, status, error_chain) ==
    IF command_uuid = 0 \/ command_uuid \notin DOMAIN cmds THEN cmds
    ELSE IF status = "Acknowledged"
    THEN [cmds EXCEPT ![command_uuid].status = "acknowledged"]
    ELSE IF status = "Error"
    THEN [cmds EXCEPT ![command_uuid].status = "failed",
                      ![command_uuid].error_message =
                          IF error_chain # <<>> THEN error_chain[1] ELSE @]
    ELSE IF status = "NotNow"
    THEN [cmds EXCEPT ![command_uuid].status = "pending"]
    ELSE cmds

\* where(device_id == device.id).where(status == "pending")
PendingCommands(cmds, u) ==
    {i \in DOMAIN cmds : cmds[i].device_id = u /\ cmds[i].status = "pending"}

\* mutant: the newest pending command instead of the oldest
NextCommandsNewest(cmds, u) ==
    LET pending == PendingCommands(cmds, u)
    IN  IF pending = {} THEN {0}
        ELSE {i \in pending : \A j \in pending : cmds[i].created_at >= cmds[j].created_at}

\* order_by(created_at).limit(1); 0 stands for None
NextCommands(cmds, u) ==
    LET pending == PendingCommands(cmds, u)
    IN  IF pending = {} THEN {0}
        ELSE {i \in pending : \A j \in pending : cmds[i].created_at <= cmds[j].created_at}

\* mutant: the command is returned without being marked
ClaimCommandUnmarked(cmds, i, t) == cmds

\* next_command.status = "sent"; sent_at = utcnow(); commit
ClaimCommand(cmds, i, t) ==
    [cmds EXCEPT ![i].status = "sent", ![i].sent_at = t]

\* the CommandUUID values a status report may carry: none (0), a stored
\* command's, or one that names no stored command
CommandUUIDs == 0..(Len(commands) + 1)

\* device.last_checkin = datetime.utcnow(), committed with the status report
TouchDevices(devs, u, t) ==
    {IF d.udid = u THEN [d EXCEPT !.last_checkin = t] ELSE d : d \in devs}

\* mutant: a device answering NotNow is offered the next command too
ReadyForWorkNotNow(status) == status \in {"Idle", "Acknowledged", "NotNow"}

\* status in ("Idle", "Acknowledged")
ReadyForWork(status) == status \in {"Idle", "Acknowledged"}

mdm_server(u, status, command_uuid, error_chain) ==
    LET cmds1 == ReportStatus(commands, command_uuid, status, error_chain)
    IN  /\ error_chain # <<>> => status = "Error"
        /\ IF DevicesByUdid(devices, u) # {} /\ ReadyForWork(status)
           THEN \E next_command \in NextCommands(cmds1, u) :
                   IF next_command # 0
                   THEN /\ commands' = ClaimCommand(cmds1, next_command, now)
                        /\ response' = Response(200, cmds1[next_command].payload)
                   ELSE /\ commands' = cmds1
                        /\ response' = Response(200, EmptyDoc)
           ELSE /\ commands' = cmds1
                /\ response' = Response(200, EmptyDoc)
        /\ devices' = TouchDevices(devices, u, now)
        /\ UNCHANGED <<push_call, checkins, envelope, polls, now, tokens, pushes>>

\* a /mdm body that parses
MdmMessage(udid, status, command_uuid, error_chain) ==
    [Malformed EXCEPT !.parses = TRUE, !.UDID = udid, !.Status = status,
                      !.CommandUUID = command_uuid, !.ErrorChain = error_chain]

\* mutant: last_checkin is written before the body is parsed
mdm_server_requestTouchesFirst(plist) ==
    IF ~plist.parses
    THEN /\ response' = Response(400, NoBody)
         /\ devices' = TouchDevices(devices, "A", now)
         /\ UNCHANGED <<push_call, checkins, envelope, polls, now, tokens, commands, pushes>>
    ELSE mdm_server(plist.UDID, plist.Status, plist.CommandUUID, plist.ErrorChain)

\* PUT/POST /mdm, from the request body on
mdm_server_request(plist) ==
    IF ~plist.parses
    THEN /\ response' = Response(400, NoBody)
         /\ UNCHANGED <<push_call, checkins, envelope, polls, now, devices, tokens, commands, pushes>>
    ELSE mdm_server(plist.UDID, plist.Status, plist.CommandUUID, plist.ErrorChain)

\* /mdm with Status=Idle and no CommandUUID, up to the await of the
\* pending-command query: the task holds the row the query returned
poll_select(p, u) ==
    /\ polls[p].pc = "idle"
    /\ \E next_command \in
            (IF DevicesByUdid(devices, u) # {} THEN NextCommands(commands, u) ELSE {0}) :
          polls' = [polls EXCEPT ![p] = [pc |-> "selected", udid |-> u,
                                         next_command |-> next_command, body |-> NoBody]]
    /\ devices' = TouchDevices(devices, u, now)
    /\ UNCHANGED <<push_call, checkins, envelope, now, tokens, commands, pushes, response>>

\* the rest of the request: mark the held row sent, commit, respond
poll_claim(p) ==
    /\ polls[p].pc = "selected"
    /\ LET next_command == polls[p].next_command
       IN  IF next_command # 0
           THEN /\ commands' = ClaimCommand(commands, next_command, now)
                /\ polls' = [polls EXCEPT ![p].pc = "done",
                                          ![p].body = commands[next_command].payload]
                /\ response' = Response(200, commands[next_command].payload)
           ELSE /\ commands' = commands
                /\ polls' = [polls EXCEPT ![p].pc = "done", ![p].body = EmptyDoc]
                /\ response' = Response(200, EmptyDoc)
    /\ UNCHANGED <<push_call, checkins, envelope, now, devices, tokens, pushes>>

\* ------------------------------------- /checkin requests between awaits
\* commit of a modified Device object: the UPDATE sets the columns whose value
\* differs from what the session loaded, in the row of that primary key
Flush(devs, loaded, device) ==
    {IF d.udid = device.udid
     THEN [col \in DOMAIN d |-> IF device[col] # loaded[col] THEN device[col] ELSE d[col]]
     ELSE d : d \in devs}

\* mutant: the devices table has no unique index on udid
InsertDeviceNoIndex(devs, device) == [ok |-> TRUE, devices |-> devs \cup {device}]

\* commit of a new Device object: the INSERT fails on the unique index of
\* udid when a row with that udid has been committed meanwhile
InsertDevice(devs, device) ==
    IF DevicesByUdid(devs, device.udid) # {}
    THEN [ok |-> FALSE, devices |-> devs]
    ELSE [ok |-> TRUE, devices |-> devs \cup {device}]

\* handle_authenticate up to the await of the device query
auth_select_device(p, u) ==
    /\ checkins[p].pc = "idle"
    /\ \E device \in (IF DevicesByUdid(devices, u) = {} THEN {NoDevice}
                       ELSE DevicesByUdid(devices, u)) :
          checkins' = [checkins EXCEPT ![p] = [IdleCheckin EXCEPT !.pc = "auth_device",
                                                                  !.udid = u,
                                                                  !.device = device,
                                                                  !.loaded = device]]
    /\ UNCHANGED <<push_call, envelope, polls, now, devices, tokens, commands, pushes,
                   response>>

\* ... up to the await of the token query
auth_select_token(p) ==
    /\ checkins[p].pc = "auth_device"
    /\ \E tok \in CorrelatedTokens(tokens, now) :
          checkins' = [checkins EXCEPT ![p].pc = "auth_token", ![p].enrollment_token = tok]
    /\ UNCHANGED <<push_call, envelope, polls, now, devices, tokens, commands, pushes,
                   response>>

\* ... the objects are modified and committed, and the request is answered
auth_commit(p) ==
    /\ checkins[p].pc = "auth_token"
    /\ LET c == checkins[p]
           held == IF c.device = NoDevice THEN {} ELSE {c.device}
           device == CHOOSE d \in AuthenticateDevices(held, tokens, c.udid,
                                                      c.enrollment_token) : TRUE
           inserted == InsertDevice(devices, device)
       IN  IF c.device = NoDevice /\ ~inserted.ok
           THEN \* IntegrityError: the transaction is rolled back
                /\ response' = Response(500, NoBody)
                /\ UNCHANGED <<devices, tokens>>
           ELSE /\ devices' = IF c.device = NoDevice THEN inserted.devices
                               ELSE Flush(devices, c.loaded, device)
                /\ tokens' = AuthenticateTokens(tokens, c.udid, c.enrollment_token)
                /\ response' = Response(200, EmptyDoc)
    /\ checkins' = [checkins EXCEPT ![p] = IdleCheckin]
    /\ UNCHANGED <<push_call, envelope, polls, now, commands, pushes>>

\* handle_token_update up to the await of the device query
tu_select_device(p, u, magic, token) ==
    /\ checkins[p].pc = "idle"
    /\ IF DevicesByUdid(devices, u) = {}
       THEN /\ response' = Response(200, EmptyDoc)
            /\ UNCHANGED checkins
       ELSE /\ \E loaded \in DevicesByUdid(devices, u) :
                  checkins' =
                      [checkins EXCEPT ![p] =
                          [IdleCheckin EXCEPT
                              !.pc = "tu_device", !.udid = u, !.loaded = loaded,
                              !.device = CHOOSE d \in TokenUpdateDevices({loaded}, u, magic,
                                                                          token) : TRUE]]
            /\ UNCHANGED response
    /\ UNCHANGED <<push_call, envelope, polls, now, devices, tokens, commands, pushes>>

\* ... the first commit: credentials and status
tu_commit_device(p) ==
    /\ checkins[p].pc = "tu_device"
    /\ devices' = Flush(devices, checkins[p].loaded, checkins[p].device)
    /\ checkins' = [checkins EXCEPT ![p].pc = "tu_committed",
                                    ![p].loaded = checkins[p].device]
    /\ UNCHANGED <<push_call, envelope, polls, now, tokens, commands, pushes, response>>

\* ... up to the await of the query for the unused linked token
tu_select_token(p) ==
    /\ checkins[p].pc = "tu_committed"
    /\ LET linked == LinkedTokens(tokens, checkins[p].udid)
       IN  IF Cardinality(linked) > 1
           THEN /\ response' = Response(500, NoBody)
                /\ checkins' = [checkins EXCEPT ![p] = IdleCheckin]
           ELSE IF linked = {}
           THEN /\ response' = Response(200, EmptyDoc)
                /\ checkins' = [checkins EXCEPT ![p] = IdleCheckin]
           ELSE /\ checkins' = [checkins EXCEPT
                                   ![p].pc = "tu_token",
                                   ![p].enrollment_token = CHOOSE i \in linked : TRUE]
                /\ UNCHANGED response
    /\ UNCHANGED <<push_call, envelope, polls, now, devices, tokens, commands, pushes>>

\* ... the second commit: the token is marked used
tu_commit_token(p) ==
    /\ checkins[p].pc = "tu_token"
    /\ tokens' = ConsumeToken(tokens, checkins[p].enrollment_token, now)
    /\ IF ProfileResolves(tokens[checkins[p].enrollment_token].profile_id)
       THEN /\ checkins' = [checkins EXCEPT ![p].pc = "tu_consumed"]
            /\ UNCHANGED response
       ELSE /\ checkins' = [checkins EXCEPT ![p] = IdleCheckin]
            /\ response' = Response(200, EmptyDoc)
    /\ UNCHANGED <<push_call, envelope, polls, now, devices, commands, pushes>>

\* ... queue_restriction_profile up to its commit of the command
tu_queue(p) ==
    /\ checkins[p].pc = "tu_consumed"
    /\ commands' = QueueCommand(commands, checkins[p].udid)
    /\ checkins' = [checkins EXCEPT ![p].pc = "tu_queued"]
    /\ UNCHANGED <<push_call, envelope, polls, now, devices, tokens, pushes, response>>

\* ... the push, with the credentials of the session's Device object, and the
\* answer
tu_push(p) ==
    /\ checkins[p].pc = "tu_queued"
    /\ pushes' = QueuePush(pushes, checkins[p].device, ApnsUp)
    /\ response' = TokenUpdateResponse(checkins[p].device, ApnsUp)
    /\ checkins' = [checkins EXCEPT ![p] = IdleCheckin]
    /\ UNCHANGED <<push_call, envelope, polls, now, devices, tokens, commands>>

\* ------------------------------------------------------ specifications
\* one device, requests served one at a time, the clock running
Next ==
    \/ Tick
    \/ \E r \in TokenRequests : create_enrollment_token(r.owner, r.profile)
    \/ \E token \in 0..MaxTokens : get_enrollment_profile(token)
    \/ handle_authenticate("A")
    \/ \E cred \in PushCredentials : handle_token_update("A", cred.magic, cred.token, ApnsUp)
    \/ handle_checkout("A")
    \/ \E status \in MdmStatuses, command_uuid \in CommandUUIDs,
          error_chain \in ErrorChains :
          mdm_server("A", status, command_uuid, error_chain)

Spec == Init /\ [][Next]_vars

\* two devices, requests served one at a time, within one clock tick
NextFleet ==
    \/ \E r \in TokenRequests : create_enrollment_token(r.owner, r.profile)
    \/ \E token \in 0..MaxTokens : get_enrollment_profile(token)
    \/ \E u \in UDIDs : handle_authenticate(u)
    \/ \E u \in UDIDs, cred \in PushCredentials :
          handle_token_update(u, cred.magic, cred.token, ApnsUp)
    \/ \E u \in UDIDs : handle_checkout(u)
    \/ \E u \in UDIDs, status \in MdmStatuses, command_uuid \in CommandUUIDs,
          error_chain \in ErrorChains :
          mdm_server(u, status, command_uuid, error_chain)

SpecFleet == Init /\ [][NextFleet]_vars

\* one device enrolling, then polled by two /mdm requests whose steps interleave
NextPolls ==
    \/ \E r \in TokenRequests : create_enrollment_token(r.owner, r.profile)
    \/ \E token \in 0..MaxTokens : get_enrollment_profile(token)
    \/ handle_authenticate("A")
    \/ \E cred \in PushCredentials : handle_token_update("A", cred.magic, cred.token, ApnsUp)
    \/ \E p \in PollSlots : poll_select(p, "A")
    \/ \E p \in PollSlots : poll_claim(p)

SpecPolls == Init /\ [][NextPolls]_vars

\* one device through its whole life: enrollment, administration, check-out,
\* with well-formed and ill-formed requests, within one clock tick
NextLifecycle ==
    \/ \E r \in TokenRequests : create_enrollment_token(r.owner, r.profile)
    \/ \E token \in 0..MaxTokens : get_enrollment_profile(token)
    \/ \E plist \in CheckinRequests("A") : mdm_checkin(plist)
    \/ \E profile_id \in Profiles \cup {"px"}, user \in Users :
          assign_profile(profile_id, "A", user)
    \/ \E user \in Users : unenroll_device("A", user)
    \/ \E plist \in {Malformed, MdmMessage("A", "Idle", 0, <<>>)} :
          mdm_server_request(plist)

SpecLifecycle == Init /\ [][NextLifecycle]_vars

\* status reports of every kind, from the enrolling device and from a UDID
\* the server has never seen, within one clock tick
NextReports ==
    \/ \E r \in TokenRequests : create_enrollment_token(r.owner, r.profile)
    \/ \E token \in 0..MaxTokens : get_enrollment_profile(token)
    \/ handle_authenticate("A")
    \/ \E cred \in PushCredentials : handle_token_update("A", cred.magic, cred.token, ApnsUp)
    \/ \E u \in UDIDs, status \in ReportedStatuses, command_uuid \in CommandUUIDs,
          error_chain \in ReportedErrorChains :
          mdm_server_request(MdmMessage(u, status, command_uuid, error_chain))
    \/ mdm_server_request(Malformed)

SpecReports == Init /\ [][NextReports]_vars

\* a device that never names a command: it enrolls and then only polls with
\* Status=Idle and no CommandUUID, while time passes
NextIdle ==
    \/ Tick
    \/ \E r \in TokenRequests : create_enrollment_token(r.owner, r.profile)
    \/ \E token \in 0..MaxTokens : get_enrollment_profile(token)
    \/ handle_authenticate("A")
    \/ \E cred \in PushCredentials : handle_token_update("A", cred.magic, cred.token, ApnsUp)
    \/ mdm_server("A", "Idle", 0, <<>>)

\* every poll that arrives is served, and the clock does not stop early
SpecIdle ==
    /\ Init /\ [][NextIdle]_vars
    /\ WF_vars(Tick) /\ WF_vars(mdm_server("A", "Idle", 0, <<>>))

\* the request a well-behaved device sends next: the acknowledgment of the
\* command it was handed, or else a poll with Status=Idle
AcknowledgingDevice(u) ==
    IF \E c \in DOMAIN commands : commands[c].device_id = u /\ commands[c].status = "sent"
    THEN \E c \in DOMAIN commands :
            /\ commands[c].device_id = u /\ commands[c].status = "sent"
            /\ mdm_server(u, "Acknowledged", c, <<>>)
    ELSE mdm_server(u, "Idle", 0, <<>>)

\* a device that enrolls, keeps polling and acknowledges what it is handed
NextDrain ==
    \/ \E r \in TokenRequests : create_enrollment_token(r.owner, r.profile)
    \/ \E token \in 0..MaxTokens : get_enrollment_profile(token)
    \/ handle_authenticate("A")
    \/ \E cred \in PushCredentials : handle_token_update("A", cred.magic, cred.token, ApnsUp)
    \/ AcknowledgingDevice("A")

\* the device never stops polling
SpecDrain == Init /\ [][NextDrain]_vars /\ WF_vars(AcknowledgingDevice("A"))

\* Authenticate requests of two devices served at the same time
NextAuthRace ==
    \/ \E r \in TokenRequests : create_enrollment_token(r.owner, r.profile)
    \/ \E token \in 0..MaxTokens : get_enrollment_profile(token)
    \/ \E p \in CheckinSlots, u \in UDIDs : auth_select_device(p, u)
    \/ \E p \in CheckinSlots : auth_select_token(p)
    \/ \E p \in CheckinSlots : auth_commit(p)

SpecAuthRace == Init /\ [][NextAuthRace]_vars

\* TokenUpdate requests of one device served at the same time, with its
\* Authenticate and CheckOut requests between their steps
NextUpdateRace ==
    \/ \E r \in TokenRequests : create_enrollment_token(r.owner, r.profile)
    \/ \E token \in 0..MaxTokens : get_enrollment_profile(token)
    \/ handle_authenticate("A")
    \/ handle_checkout("A")
    \/ \E p \in CheckinSlots : tu_select_device(p, "A", "m1", <<171, 205>>)
    \/ \E p \in CheckinSlots : tu_commit_device(p)
    \/ \E p \in CheckinSlots : tu_select_token(p)
    \/ \E p \in CheckinSlots : tu_commit_token(p)
    \/ \E p \in CheckinSlots : tu_queue(p)
    \/ \E p \in CheckinSlots : tu_push(p)

SpecUpdateRace == Init /\ [][NextUpdateRace]_vars

\* the two device-facing endpoints fed with every kind of request body, the
\* clock running
NextIngress ==
    \/ Tick
    \/ \E r \in TokenRequests : create_enrollment_token(r.owner, r.profile)
    \/ \E token \in 0..MaxTokens : get_enrollment_profile(token)
    \/ \E plist \in CheckinRequests("A") : mdm_checkin(plist)
    \/ \E plist \in {Malformed, MdmMessage("A", "Idle", 0, <<>>)} :
          mdm_server_request(plist)

SpecIngress == Init /\ [][NextIngress]_vars

\* a command envelope is built for a kind and an identifier
build_command ==
    /\ envelope.pc = "input"
    /\ envelope' =
          [envelope EXCEPT
             !.pc = "built",
             !.bytes =
                IF envelope.kind = "InstallProfile"
                THEN build_install_profile_command_plist(envelope.command_uuid, ProfileData)
                ELSE IF envelope.kind = "RemoveProfile"
                THEN build_remove_profile_command(envelope.command_uuid, ProfileIdentifier)
                ELSE build_device_info_command(envelope.command_uuid)]
    /\ UNCHANGED <<push_call, checkins, now, devices, tokens, commands, pushes, response, polls>>

\* the reader parses the envelope and takes the two fields it acts on
parse_command ==
    /\ envelope.pc = "built"
    /\ LET plist == plist_loads(envelope.bytes)
       IN  envelope' =
             [envelope EXCEPT !.pc = "parsed",
                              !.CommandUUID = plist.v["CommandUUID"].v,
                              !.RequestType = plist.v["Command"].v["RequestType"].v]
    /\ UNCHANGED <<push_call, checkins, now, devices, tokens, commands, pushes, response, polls>>

InitEnvelope ==
    /\ now = 0
    /\ devices = {}
    /\ tokens = <<>>
    /\ commands = <<>>
    /\ pushes = <<>>
    /\ response = Response(0, NoBody)
    /\ polls = [p \in PollSlots |-> IdlePoll]
    /\ envelope \in {[NoEnvelope EXCEPT !.pc = "input", !.kind = kind, !.command_uuid = u] :
                        kind \in CommandKinds, u \in CommandIdentifiers}
    /\ checkins = [p \in CheckinSlots |-> IdleCheckin]
    /\ push_call = NoPushCall

NextEnvelope == build_command \/ parse_command

\* envelopes of every kind and identifier, built and read back
SpecEnvelope == InitEnvelope /\ [][NextEnvelope]_vars

\* the arguments and the surroundings a call of send_push_notification may meet
InitPush ==
    /\ now = 0
    /\ devices = {}
    /\ tokens = <<>>
    /\ commands = <<>>
    /\ pushes = <<>>
    /\ response = Response(0, NoBody)
    /\ polls = [p \in PollSlots |-> IdlePoll]
    /\ envelope = NoEnvelope
    /\ checkins = [p \in CheckinSlots |-> IdleCheckin]
    /\ push_call \in {[NoPushCall EXCEPT !.pc = "called", !.push_token = push_token,
                                          !.push_magic = push_magic, !.apns = apns] :
                         push_token \in {<<>>, hex(<<171, 205>>)},
                         push_magic \in {NoCred, "m1"},
                         apns \in ApnsEnvironments}

\* the call runs to its return
send_push_call ==
    /\ push_call.pc = "called"
    /\ push_call' =
          [push_call EXCEPT
              !.pc = "returned",
              !.requested = PostsToApns(push_call.push_token, push_call.push_magic,
                                        push_call.apns),
              !.result = send_push_notification(push_call.push_token, push_call.push_magic,
                                                push_call.apns)]
    /\ UNCHANGED <<now, devices, tokens, commands, pushes, response, polls, envelope,
                   checkins>>

NextPush == send_push_call

SpecPush == InitPush /\ [][NextPush]_vars

\* ------------------------------------------------------------- properties
SentCommands(u) ==
    {i \in DOMAIN commands : commands[i].device_id = u /\ commands[i].status = "sent"}

\* C1: in every reachable state every device has at most one command in
\* status 'sent'
C1_AtMostOneSent ==
    \A u \in UDIDs : Cardinality(SentCommands(u)) <= 1

\* C2: two /mdm polls with Status=Idle for the same device, processed
\* concurrently, never both answer with the payload of the same command
C2_OneClaimPerCommand ==
    \A p, q \in PollSlots :
        (/\ p # q
         /\ polls[p].pc = "done" /\ polls[q].pc = "done"
         /\ polls[p].udid = polls[q].udid
         /\ polls[p].body.doc = "command")
        => polls[q].body # polls[p].body

\* the pending commands of device u that no pending command of u predates
OldestPending(u) ==
    {i \in PendingCommands(commands, u) :
        \A j \in PendingCommands(commands, u) :
            commands[i].created_at <= commands[j].created_at}

\* command i went from its current row to 'sent', stamped with the current
\* time, and nothing else in the commands table changed
OnlySent(i) ==
    /\ DOMAIN commands' = DOMAIN commands
    /\ commands'[i].status = "sent"
    /\ commands'[i].sent_at = now
    /\ [commands'[i] EXCEPT !.status = commands[i].status,
                            !.sent_at = commands[i].sent_at] = commands[i]
    /\ \A j \in DOMAIN commands : j # i => commands'[j] = commands[j]

\* C3: a /mdm poll with Status=Idle from a known device with a pending
\* command answers with the payload of its oldest pending command, sets
\* exactly that command to 'sent' (stamping sent_at) and changes no other
\* command
C3_PollDeliversOldest ==
    [][\A u \in UDIDs, c \in CommandUUIDs :
          (/\ DevicesByUdid(devices, u) # {}
           /\ PendingCommands(commands, u) # {}
           /\ mdm_server(u, "Idle", c, <<>>))
          => \E i \in OldestPending(u) :
                /\ response' = Response(200, commands[i].payload)
                /\ OnlySent(i)]_vars

\* C3 witness: the older of a device's two commands was just delivered,
\* the newer one is still pending
C3_Witness ==
    \E i, j \in DOMAIN commands :
        /\ commands[i].device_id = commands[j].device_id
        /\ commands[i].created_at < commands[j].created_at
        /\ commands[i].status = "sent" /\ commands[i].sent_at = now
        /\ commands[j].status = "pending" /\ commands[j].sent_at = NoTime
        /\ response = Response(200, commands[i].payload)

\* C4: an Acknowledged report naming a 'sent' command sets it to
\* 'acknowledged'; and a poll (Status=Idle) from a device that has no pending
\* command is answered with the empty document and changes no command
C4_AckThenEmptyPoll ==
    [][\A u \in UDIDs, c \in CommandUUIDs :
          /\ (/\ c \in DOMAIN commands
              /\ commands[c].status = "sent"
              /\ mdm_server(u, "Acknowledged", c, <<>>))
             => (c \in DOMAIN commands' /\ commands'[c].status = "acknowledged")
          /\ (/\ PendingCommands(commands, u) = {}
              /\ mdm_server(u, "Idle", c, <<>>))
             => (response' = Response(200, EmptyDoc) /\ commands' = commands)]_vars

\* C4 witness: a device whose command is acknowledged and which has nothing
\* pending was just answered with the empty document
C4_Witness ==
    \E i \in DOMAIN commands :
        /\ commands[i].status = "acknowledged"
        /\ commands[i].sent_at # NoTime
        /\ PendingCommands(commands, commands[i].device_id) = {}
        /\ SentCommands(commands[i].device_id) = {}
        /\ response = Response(200, EmptyDoc)

\* C5: a NotNow report naming a 'sent' command returns it to 'pending' with
\* its place in the queue (the rest of the row unchanged); and a command that
\* came back to 'pending' is the one the owning device's Idle poll delivers
\* when the device has no older pending command
C5_NotNowRedelivers ==
    [][\A u \in UDIDs, c \in CommandUUIDs :
          /\ (/\ c \in DOMAIN commands
              /\ commands[c].status = "sent"
              /\ mdm_server(u, "NotNow", c, <<>>))
             => (/\ commands' = [commands EXCEPT ![c].status = "pending"]
                 /\ response' = Response(200, EmptyDoc))
          /\ (/\ DevicesByUdid(devices, u) # {}
              /\ c \in PendingCommands(commands, u)
              /\ commands[c].sent_at # NoTime
              /\ \A j \in PendingCommands(commands, u) :
                    j # c => commands[j].created_at > commands[c].created_at
              /\ mdm_server(u, "Idle", 0, <<>>))
             => (/\ response' = Response(200, commands[c].payload)
                 /\ commands'[c].status = "sent")]_vars

\* C5 witness: a command that was delivered is pending again, ahead of a
\* newer pending command of the same device
C5_Witness ==
    \E i, j \in DOMAIN commands :
        /\ commands[i].device_id = commands[j].device_id
        /\ commands[i].created_at < commands[j].created_at
        /\ commands[i].status = "pending" /\ commands[i].sent_at # NoTime
        /\ commands[j].status = "pending"
        /\ response = Response(200, EmptyDoc)

\* C6: a token's used flag, once true, stays true, and its used_at is never
\* stamped again (a TokenUpdate after consumption changes neither)
C6_ConsumedOnce ==
    [][\A i \in DOMAIN tokens :
          tokens[i].is_used
          => (/\ i \in DOMAIN tokens'
              /\ tokens'[i].is_used
              /\ tokens'[i].used_at = tokens[i].used_at)]_vars

\* C6 witness: the device consumed its token at an earlier time (the push of
\* that TokenUpdate carried a push token) and has sent another TokenUpdate
\* since (enrolled, now without push token)
C6_Witness ==
    \E i \in DOMAIN tokens, d \in devices :
        /\ tokens[i].is_used /\ tokens[i].device_udid = d.udid
        /\ tokens[i].used_at # NoTime /\ tokens[i].used_at < now
        /\ LinkedTokens(tokens, d.udid) = {}
        /\ Len(pushes) = 1 /\ pushes[1].udid = d.udid
        /\ d.status = "enrolled" /\ d.push_token = <<>>

\* C7: in every reachable state at most one unused token is linked to any
\* device identifier
C7_OneUnusedLinkedToken ==
    \A u \in UDIDs :
        Cardinality({i \in DOMAIN tokens :
                        tokens[i].device_udid = u /\ ~tokens[i].is_used}) <= 1

\* C8: a TokenUpdate reporting push credentials, for a known device with an
\* unused token linked to its UDID, leaves the device 'enrolled' with those
\* credentials and the token used; when the token's profile resolves, exactly
\* one pending InstallProfile command for the device is added and one push
\* attempt is made; when the token has no profile, no command is added
C8_TokenUpdateEnrolls ==
    [][\A u \in UDIDs, cred \in PushCredentials :
          (/\ cred.magic # NoCred /\ cred.token # <<>>
           /\ DevicesByUdid(devices, u) # {}
           /\ \E i \in DOMAIN tokens : tokens[i].device_udid = u /\ ~tokens[i].is_used
           /\ \E apns \in ApnsOutcomes : handle_token_update(u, cred.magic, cred.token, apns))
          => \E i \in DOMAIN tokens :
                /\ tokens[i].device_udid = u /\ ~tokens[i].is_used
                /\ tokens'[i].is_used
                /\ \A d \in DevicesByUdid(devices', u) :
                      /\ d.status = "enrolled"
                      /\ d.push_magic = cred.magic
                      /\ d.push_token = hex(cred.token)
                /\ IF tokens[i].profile_id \in Profiles
                   THEN /\ Len(commands') = Len(commands) + 1
                        /\ SubSeq(commands', 1, Len(commands)) = commands
                        /\ commands'[Len(commands')].status = "pending"
                        /\ commands'[Len(commands')].command_type = "InstallProfile"
                        /\ commands'[Len(commands')].device_id = u
                        /\ Len(pushes') = Len(pushes) + 1
                   ELSE tokens[i].profile_id = NoRef => commands' = commands]_vars

\* token i was fetched within the last hour, is unused and is linked to no
\* device
Correlatable(i) ==
    /\ ~tokens[i].is_used
    /\ tokens[i].device_udid = NoUdid
    /\ tokens[i].last_accessed_at # NoTime
    /\ now - tokens[i].last_accessed_at <= Hour

\* C9: Authenticate never changes a used flag; when a token can be
\* correlated, the step links one such token to the UDID and nothing else in
\* the token table changes, and the device's owner and profile become that
\* token's; a used flag is only ever set by a TokenUpdate of the linked device
C9_AuthenticateLinksOnly ==
    [][/\ \A u \in UDIDs :
            handle_authenticate(u)
            => /\ DOMAIN tokens' = DOMAIN tokens
               /\ \A i \in DOMAIN tokens : tokens'[i].is_used = tokens[i].is_used
               /\ (\E i \in DOMAIN tokens : Correlatable(i))
                  => \E i \in DOMAIN tokens :
                        /\ Correlatable(i)
                        /\ tokens' = [tokens EXCEPT ![i].device_udid = u]
                        /\ DevicesByUdid(devices', u) # {}
                        /\ \A d \in DevicesByUdid(devices', u) :
                              /\ d.owner_id = tokens[i].owner_id
                              /\ d.profile_id = tokens[i].profile_id
       /\ \A i \in DOMAIN tokens :
            (~tokens[i].is_used /\ tokens'[i].is_used)
            => \E cred \in PushCredentials, apns \in ApnsOutcomes :
                  handle_token_update(tokens[i].device_udid, cred.magic, cred.token, apns)]_vars

\* C9 witness: a fetched token is linked to a device that carries the
\* token's owner and profile, and is still unused
C9_Witness ==
    \E i \in DOMAIN tokens, d \in devices :
        /\ tokens[i].device_udid = d.udid
        /\ ~tokens[i].is_used /\ tokens[i].used_at = NoTime
        /\ tokens[i].last_accessed_at # NoTime
        /\ d.owner_id = tokens[i].owner_id /\ d.owner_id = "u2"
        /\ d.profile_id = tokens[i].profile_id
        /\ d.status = "pending"
        /\ response = Response(200, EmptyDoc)

\* C10: an Authenticate for a UDID without a device record, when no token can
\* be correlated, adds exactly one device row for the UDID (pending, no owner,
\* no profile, no push credentials) and changes no token
C10_UnattributedDevice ==
    [][\A u \in UDIDs :
          (/\ DevicesByUdid(devices, u) = {}
           /\ ~\E i \in DOMAIN tokens : Correlatable(i)
           /\ handle_authenticate(u))
          => /\ tokens' = tokens
             /\ devices' = devices \cup
                  {[udid |-> u, status |-> "pending", owner_id |-> NoRef,
                    profile_id |-> NoRef, push_token |-> <<>>, push_magic |-> NoCred,
                    last_checkin |-> now]}
             /\ Cardinality(devices') = Cardinality(devices) + 1]_vars

\* C10 witness: an unattributed pending device exists while a token fetched
\* more than an hour ago is still unlinked and unused
C10_Witness ==
    \E i \in DOMAIN tokens, d \in devices :
        /\ d.status = "pending" /\ d.owner_id = NoRef /\ d.profile_id = NoRef
        /\ d.push_token = <<>> /\ d.push_magic = NoCred
        /\ ~tokens[i].is_used /\ tokens[i].device_udid = NoUdid
        /\ tokens[i].last_accessed_at # NoTime
        /\ now - tokens[i].last_accessed_at > Hour
        /\ response = Response(200, EmptyDoc)

DeviceStatuses == {"pending", "enrolled", "managed", "unenrolling", "removed"}

\* C11: a CheckOut processed for a known device leaves that device with
\* status "removed" and neither push token nor push magic, whatever its
\* status and credentials were
C11_CheckOutRemoves ==
    [][\A u \in UDIDs :
          (/\ DevicesByUdid(devices, u) # {}
           /\ \A d \in DevicesByUdid(devices, u) : d.status \in DeviceStatuses
           /\ mdm_checkin(CheckinMessage("CheckOut", u, NoCred, <<>>)))
          => /\ DevicesByUdid(devices', u) # {}
             /\ \A d \in DevicesByUdid(devices', u) :
                   /\ d.status = "removed"
                   /\ d.push_token = <<>>
                   /\ d.push_magic = NoCred]_vars

\* C11 witness: a device that had enrolled through a token (so it carried
\* credentials) and was administered is now removed, without credentials
C11_Witness ==
    \E d \in devices, i \in DOMAIN tokens :
        /\ tokens[i].is_used /\ tokens[i].device_udid = d.udid
        /\ d.status = "removed"
        /\ d.push_token = <<>> /\ d.push_magic = NoCred
        /\ d.profile_id = "p1" /\ tokens[i].profile_id = NoRef
        /\ response = Response(200, EmptyDoc)

\* C12: in every reachable state every device has push token and push magic
\* either both present or both absent, also after a TokenUpdate that carries
\* only one of the two
C12_CredentialsPaired ==
    \A d \in devices : (d.push_token = <<>>) <=> (d.push_magic = NoCred)

\* the status changes the state machine documents
DocumentedEdges ==
    {<<"pending", "enrolled">>, <<"enrolled", "managed">>,
     <<"managed", "unenrolling">>, <<"removed", "pending">>}
    \cup {<<st, "removed">> : st \in DeviceStatuses \ {"removed"}}

\* C13: every change of a device's status follows a documented edge:
\* pending to enrolled, enrolled to managed, managed to unenrolling, any
\* status to removed, removed to pending
C13_DocumentedEdgesOnly ==
    [][\A d \in devices, e \in devices' :
          (e.udid = d.udid /\ e.status # d.status)
          => <<d.status, e.status>> \in DocumentedEdges]_vars

C16_AuthenticateAlwaysAcks ==
    [][\A plist \in CheckinRequests("A") :
          (plist.parses /\ plist.MessageType = "Authenticate" /\ mdm_checkin(plist))
          => response' = Response(200, EmptyDoc)]_vars

\* C17: a request to /checkin or /mdm whose body cannot be parsed is answered
\* with HTTP 400 and leaves every device (last_checkin included), token and
\* command unchanged
C17_MalformedChangesNothing ==
    [][(mdm_checkin(Malformed) \/ mdm_server_request(Malformed))
       => /\ response' = Response(400, NoBody)
          /\ devices' = devices
          /\ tokens' = tokens
          /\ commands' = commands
          /\ pushes' = pushes]_vars

\* C17 witness: the last request was turned down with 400 while a device
\* last seen at an earlier time has a pending command waiting
C17_Witness ==
    \E d \in devices :
        /\ d.last_checkin < now
        /\ PendingCommands(commands, d.udid) # {}
        /\ \A i \in DOMAIN tokens : tokens[i].is_used
        /\ tokens # <<>>
        /\ response = Response(400, NoBody)

\* C18: a /checkin message whose MessageType is none of Authenticate,
\* TokenUpdate, CheckOut is answered with HTTP 200 and leaves every device,
\* token and command unchanged
C18_UnknownTypeAccepted ==
    [][\A plist \in CheckinRequests("A") :
          (/\ plist.parses
           /\ plist.MessageType \notin {"Authenticate", "TokenUpdate", "CheckOut"}
           /\ mdm_checkin(plist))
          => /\ response'.code = 200
             /\ devices' = devices
             /\ tokens' = tokens
             /\ commands' = commands
             /\ pushes' = pushes]_vars

\* C18 witness: a bare 200 was the last answer while an enrolled device with
\* a linked, used token and a pending command is on record
C18_Witness ==
    \E d \in devices :
        /\ d.status = "enrolled"
        /\ PendingCommands(commands, d.udid) # {}
        /\ \E i \in DOMAIN tokens : tokens[i].is_used /\ tokens[i].device_udid = d.udid
        /\ response = Response(200, NoBody)

\* C19: for each command kind and every command identifier u, parsing the
\* envelope built for u yields CommandUUID = u and the RequestType of the kind
C19_EnvelopeRoundTrip ==
    envelope.pc = "parsed"
    => /\ envelope.CommandUUID = envelope.command_uuid
       /\ envelope.RequestType = <<envelope.kind>>

\* C19 witness: a RemoveProfile envelope whose identifier holds characters
\* the XML writer escapes has been built and read back
C19_Witness ==
    /\ envelope.pc = "parsed"
    /\ envelope.kind = "RemoveProfile"
    /\ envelope.command_uuid = <<"&", "<">>
    /\ \E i \in DOMAIN envelope.bytes :
          envelope.bytes[i] = Leaf("string", <<"&amp;", "&lt;">>)

\* the status changes the command queue documents
CommandEdges ==
    {<<"pending", "sent">>, <<"sent", "acknowledged">>, <<"sent", "failed">>,
     <<"sent", "pending">>}

\* C20: every change of a command's status is pending to sent, sent to
\* acknowledged, sent to failed or sent to pending; an acknowledged or failed
\* command never changes again and a pending one is never acknowledged or
\* failed
C20_CommandEdgesOnly ==
    [][\A i \in DOMAIN commands :
          (i \in DOMAIN commands' /\ commands'[i].status # commands[i].status)
          => <<commands[i].status, commands'[i].status>> \in CommandEdges]_vars

\* C21: after any Authenticate carrying UDID u is processed, a device record
\* for u exists with status "pending", whether or not u was known and
\* whether or not a token was correlated
C21_AuthenticateLeavesPending ==
    [][\A u \in UDIDs :
          mdm_checkin(CheckinMessage("Authenticate", u, NoCred, <<>>))
          => /\ DevicesByUdid(devices', u) # {}
             /\ \A d \in DevicesByUdid(devices', u) : d.status = "pending"]_vars

\* the tokens a step links to a device
NewlyLinked ==
    {i \in DOMAIN tokens :
        i \in DOMAIN tokens' /\ tokens'[i].device_udid # tokens[i].device_udid}

\* C22: the token an Authenticate links has the greatest last_accessed_at
\* among the tokens that are unused, unlinked and fetched within the last
\* hour; a token never fetched, fetched longer ago, used or already linked is
\* never selected
C22_LinksMostRecentlyFetched ==
    [][\A i \in NewlyLinked :
          /\ Correlatable(i)
          /\ \A j \in DOMAIN tokens :
                Correlatable(j) => tokens[j].last_accessed_at <= tokens[i].last_accessed_at]_vars

\* C22 witness: of two unused tokens fetched at different times within the
\* hour, the one fetched later is linked and the other is not
C22_Witness ==
    \E i, j \in DOMAIN tokens :
        /\ ~tokens[i].is_used /\ ~tokens[j].is_used
        /\ tokens[i].last_accessed_at # NoTime
        /\ tokens[i].last_accessed_at < tokens[j].last_accessed_at
        /\ now - tokens[i].last_accessed_at <= Hour
        /\ tokens[j].device_udid = "A" /\ tokens[i].device_udid = NoUdid
        /\ response = Response(200, EmptyDoc)

\* C23: Authenticate never links a token whose expires_at has passed, also
\* when its last fetch is still within the one-hour window
C23_NeverLinksExpired ==
    [][\A i \in NewlyLinked : now < tokens[i].expires_at]_vars

\* the tokens an Authenticate arriving now could correlate
Candidates == {i \in DOMAIN tokens : Correlatable(i)}

\* no device's owner or profile reference changes, and a device that is new
\* has neither
ReferencesKept ==
    \A e \in devices' :
        IF DevicesByUdid(devices, e.udid) = {}
        THEN e.owner_id = NoRef /\ e.profile_id = NoRef
        ELSE \A d \in DevicesByUdid(devices, e.udid) :
                e.owner_id = d.owner_id /\ e.profile_id = d.profile_id

\* C24 as stated: with zero or more than one token eligible no token is
\* linked and the device's owner and profile are left unset or unchanged; a
\* token is linked only when exactly one candidate is eligible
C24_LinksOnlySoleCandidate ==
    [][Cardinality(Candidates) # 1 => (NewlyLinked = {} /\ ReferencesKept)]_vars

\* C24 as amended: with no token eligible no token is linked and the
\* device's owner and profile are left unset or unchanged; a token is linked
\* only when at least one is eligible, at most one is linked, and among
\* several candidates it is one fetched most recently
C24_LinksOnlyWhenEligible ==
    [][/\ Candidates = {} => (NewlyLinked = {} /\ ReferencesKept)
       /\ Cardinality(NewlyLinked) <= 1
       /\ \A i \in NewlyLinked :
             /\ i \in Candidates
             /\ tokens'[i] = [tokens[i] EXCEPT !.device_udid = "A"]
             /\ \A j \in Candidates :
                   tokens[j].last_accessed_at <= tokens[i].last_accessed_at
             /\ \A e \in DevicesByUdid(devices', "A") :
                   e.owner_id = tokens[i].owner_id /\ e.profile_id = tokens[i].profile_id]_vars

\* C24 witness: two tokens of different owners were fetched at the same
\* time; one of them is linked, and its owner is the device's, while the
\* other stays unlinked
C24_Witness ==
    \E i, j \in DOMAIN tokens, d \in devices :
        /\ i # j /\ ~tokens[i].is_used /\ ~tokens[j].is_used
        /\ tokens[i].last_accessed_at = tokens[j].last_accessed_at
        /\ tokens[i].last_accessed_at # NoTime
        /\ tokens[i].owner_id # tokens[j].owner_id
        /\ tokens[i].device_udid = d.udid /\ tokens[j].device_udid = NoUdid
        /\ d.owner_id = tokens[i].owner_id
        /\ response = Response(200, EmptyDoc)

\* C25: once a token is used, no field of it changes under any later
\* enrollment fetch, Authenticate, TokenUpdate or CheckOut
C25_UsedTokenFrozen ==
    [][\A i \in DOMAIN tokens :
          tokens[i].is_used => (i \in DOMAIN tokens' /\ tokens'[i] = tokens[i])]_vars

\* C25 witness: a token consumed at an earlier time is still linked to its
\* device, with its stamps, after that device checked out
C25_Witness ==
    \E i \in DOMAIN tokens, d \in devices :
        /\ tokens[i].is_used /\ tokens[i].used_at # NoTime /\ tokens[i].used_at < now
        /\ tokens[i].last_accessed_at # NoTime
        /\ tokens[i].device_udid = d.udid
        /\ d.status = "removed"
        /\ response = Response(200, EmptyDoc)

\* the commands a step sets to 'sent'
NewlySent ==
    {i \in DOMAIN commands' :
        commands'[i].status = "sent" /\ (i \in DOMAIN commands => commands[i].status # "sent")}

\* C26: a command is set to 'sent' and returned only in answer to a /mdm
\* poll from a known device whose Status is Idle or Acknowledged; a poll with
\* any other Status is answered with the empty document and sets no command
\* to 'sent'
C26_HandedOutOnlyWhenReady ==
    [][/\ NewlySent # {}
          => \E u \in UDIDs, status \in {"Idle", "Acknowledged"},
                c \in CommandUUIDs :
                /\ DevicesByUdid(devices, u) # {}
                /\ mdm_server_request(MdmMessage(u, status, c, <<>>))
                /\ \E i \in NewlySent : response' = Response(200, commands'[i].payload)
       /\ \A u \in UDIDs, status \in ReportedStatuses \ {"Idle", "Acknowledged"},
             c \in CommandUUIDs, error_chain \in ReportedErrorChains :
             mdm_server_request(MdmMessage(u, status, c, error_chain))
             => (response' = Response(200, EmptyDoc) /\ NewlySent = {})]_vars

\* C26 witness: a delivered command came back to 'pending' through a NotNow
\* report, which was answered with the empty document; nothing is 'sent'
C26_Witness ==
    \E i \in DOMAIN commands :
        /\ commands[i].status = "pending" /\ commands[i].sent_at # NoTime
        /\ SentCommands(commands[i].device_id) = {}
        /\ \A j \in DOMAIN commands : commands[j].status \in {"pending", "failed"}
        /\ response = Response(200, EmptyDoc)

\* C27: a status report whose CommandUUID names no stored command changes no
\* command by itself, and is answered as the same report without CommandUUID
\* is: with the next deliverable command or with the empty document
C27_UnknownCommandIgnored ==
    [][\A u \in UDIDs, status \in ReportedStatuses, c \in CommandUUIDs,
          error_chain \in ReportedErrorChains :
          (/\ c # 0 /\ c \notin DOMAIN commands
           /\ mdm_server_request(MdmMessage(u, status, c, error_chain)))
          => /\ mdm_server_request(MdmMessage(u, status, 0, error_chain))
             /\ \/ commands' = commands /\ response' = Response(200, EmptyDoc)
                \/ \E i \in OldestPending(u) :
                      OnlySent(i) /\ response' = Response(200, commands[i].payload)]_vars

\* C27 witness: with a command delivered and still 'sent', and a second one
\* pending, the device was answered with the empty document
C27_Witness ==
    \E i, j \in DOMAIN commands :
        /\ commands[i].status = "sent" /\ commands[j].status = "pending"
        /\ commands[i].device_id = commands[j].device_id
        /\ commands[j].sent_at = NoTime /\ commands[j].error_message = NoError
        /\ response = Response(200, EmptyDoc)

\* C28: a TokenUpdate or CheckOut for a UDID without a device record is
\* answered with the empty document and leaves the store unchanged
C28_UnknownDeviceNoOp ==
    [][\A u \in UDIDs :
          DevicesByUdid(devices, u) = {}
          => /\ \A cred \in PushCredentials :
                   handle_token_update(u, cred.magic, cred.token, ApnsUp)
                   => (/\ response' = Response(200, EmptyDoc)
                       /\ UNCHANGED <<devices, tokens, commands, pushes>>)
             /\ handle_checkout(u)
                   => (/\ response' = Response(200, EmptyDoc)
                       /\ UNCHANGED <<devices, tokens, commands, pushes>>)]_vars

\* C28 witness: with a fetched token waiting and no device on record, a
\* check-in was answered with the empty document
C28_Witness ==
    /\ devices = {}
    /\ \E i \in DOMAIN tokens :
          tokens[i].last_accessed_at # NoTime /\ tokens[i].device_udid = NoUdid
    /\ commands = <<>> /\ pushes = <<>>
    /\ response = Response(200, EmptyDoc)

\* C29: an Error report naming a stored command sets it to 'failed' with the
\* first ErrorChain entry as its error text; with an empty or absent
\* ErrorChain it is set to 'failed' and its error text is left as it was
C29_ErrorFailsCommand ==
    [][\A u \in UDIDs, c \in CommandUUIDs, error_chain \in ReportedErrorChains :
          (/\ c \in DOMAIN commands
           /\ mdm_server_request(MdmMessage(u, "Error", c, error_chain)))
          => commands' = [commands EXCEPT
                             ![c].status = "failed",
                             ![c].error_message =
                                 IF error_chain = <<>> THEN commands[c].error_message
                                 ELSE error_chain[1]]]_vars

\* C29 witness: one command failed with the first entry of a two-entry
\* chain, another failed without an error text
C29_Witness ==
    \E i, j \in DOMAIN commands :
        /\ commands[i].status = "failed" /\ commands[i].error_message = "e1"
        /\ commands[j].status = "failed" /\ commands[j].error_message = NoError
        /\ response = Response(200, EmptyDoc)

\* C30: a failed push attempt in the TokenUpdate chain changes no command's
\* status and does not fail the request: the new command is 'pending', the
\* answer is the empty document, the device is 'enrolled', its token consumed
C30_PushFailureTolerated ==
    [][\A cred \in TokenUpdateCredentials, apns \in ApnsOutcomes :
          (/\ Len(commands') = Len(commands) + 1
           /\ ~send_push_notification(IF cred.token # <<>> THEN hex(cred.token) ELSE <<>>,
                                      cred.magic, apns)
           /\ handle_token_update("A", cred.magic, cred.token, apns))
          => /\ response' = Response(200, EmptyDoc)
             /\ SubSeq(commands', 1, Len(commands)) = commands
             /\ commands'[Len(commands')].status = "pending"
             /\ \A d \in DevicesByUdid(devices', "A") : d.status = "enrolled"
             /\ LinkedTokens(tokens', "A") = {}
             /\ \E i \in LinkedTokens(tokens, "A") : tokens'[i].is_used]_vars

\* C30 witness: the push for the command just enqueued was not delivered;
\* the command is pending, the device enrolled, its token used
C30_Witness ==
    /\ pushes # <<>> /\ ~pushes[Len(pushes)].delivered
    /\ commands # <<>> /\ commands[Len(commands)].status = "pending"
    /\ commands[Len(commands)].device_id = pushes[Len(pushes)].udid
    /\ \E d \in devices : d.udid = "A" /\ d.status = "enrolled"
    /\ \E i \in DOMAIN tokens : tokens[i].device_udid = "A" /\ tokens[i].is_used
    /\ response = Response(200, EmptyDoc)

\* C35: every stored command's command identifier is the CommandUUID of its
\* own payload, and no two stored commands share a command identifier
C35_IdentifierIsPayloadKey ==
    \A i \in DOMAIN commands :
        /\ commands[i].payload.doc = "command"
        /\ commands[i].payload.CommandUUID = commands[i].command_uuid
        /\ \A j \in DOMAIN commands :
              j # i => commands[j].command_uuid # commands[i].command_uuid

\* C35 witness: two devices each have a stored command, and the one last
\* delivered carried its own identifier
C35_Witness ==
    \E i, j \in DOMAIN commands :
        /\ commands[i].device_id # commands[j].device_id
        /\ commands[i].status = "sent"
        /\ response = Response(200, commands[i].payload)
        /\ response.body.CommandUUID = commands[i].command_uuid

\* C36: a /mdm status report carrying UDID u changes a command only if the
\* command belongs to the device with that UDID
C36_ReportsOwnCommandsOnly ==
    [][\A u \in UDIDs, status \in MdmStatuses, c \in CommandUUIDs,
          error_chain \in ErrorChains :
          (/\ c \in DOMAIN commands
           /\ commands[c].device_id # u
           /\ mdm_server(u, status, c, error_chain))
          => commands'[c] = commands[c]]_vars

\* the devices, tokens and commands without their timestamps
Timeless ==
    <<{[d EXCEPT !.last_checkin = NoTime] : d \in devices},
      [i \in DOMAIN tokens |-> [tokens[i] EXCEPT !.used_at = NoTime,
                                                 !.last_accessed_at = NoTime]],
      [i \in DOMAIN commands |-> [commands[i] EXCEPT !.sent_at = NoTime]]>>

\* processing the check-in message once more would change the store
ChangesOnRepeat(plist) == ENABLED (mdm_checkin(plist) /\ Timeless' # Timeless)

\* C34: processing the same Authenticate, TokenUpdate or CheckOut twice in
\* succession leaves the same devices, tokens and commands, timestamps
\* aside, as processing it once
C34_CheckinIdempotent ==
    [][\A plist \in CheckinRequests("A") :
          (/\ plist.parses
           /\ plist.MessageType \in {"Authenticate", "TokenUpdate", "CheckOut"}
           /\ mdm_checkin(plist))
          => ~ChangesOnRepeat(plist)']_vars

\* C33: every command that enters 'sent' eventually leaves 'sent', also when
\* the device never sends a status report that names it
C33_SentEventuallyLeaves ==
    \A i \in 1..MaxTokens :
        (i \in DOMAIN commands /\ commands[i].status = "sent")
        ~> (i \in DOMAIN commands /\ commands[i].status # "sent")

\* every command of device u is acknowledged
AllAcknowledged(u) ==
    \A i \in DOMAIN commands :
        commands[i].device_id = u => commands[i].status = "acknowledged"

\* C39: while the device keeps polling and acknowledges every command it is
\* handed, every pending command is eventually acknowledged, older commands
\* before newer ones, and once all are acknowledged every poll is answered
\* with the empty document
C39_QueueDrains ==
    /\ \A i \in 1..MaxTokens :
          (i \in DOMAIN commands /\ commands[i].status = "pending")
          ~> (i \in DOMAIN commands /\ commands[i].status = "acknowledged")
    /\ [](\A i, j \in DOMAIN commands :
             (/\ commands[i].device_id = commands[j].device_id
              /\ commands[i].created_at < commands[j].created_at
              /\ commands[j].status # "pending")
             => commands[i].status = "acknowledged")
    /\ [][(AllAcknowledged("A") /\ AcknowledgingDevice("A"))
          => (response' = Response(200, EmptyDoc) /\ commands' = commands)]_vars

\* C39 witness: two commands were handed out and acknowledged one after the
\* other, and the poll that followed was answered with the empty document
C39_Witness ==
    /\ Len(commands) = 2
    /\ AllAcknowledged("A")
    /\ \A i \in DOMAIN commands : commands[i].device_id = "A" /\ commands[i].sent_at # NoTime
    /\ response = Response(200, EmptyDoc)

\* C32: send_push_notification returns failure without a network request
\* whenever the push token, the push magic, the certificate file or the key
\* file is missing; a request is made only when all four are present
C32_NoRequestWithoutPreconditions ==
    push_call.pc = "returned"
    => LET missing == \/ push_call.push_token = <<>>
                      \/ push_call.push_magic = NoCred
                      \/ ~push_call.apns.cert
                      \/ ~push_call.apns.key
       IN  /\ missing => (~push_call.result /\ ~push_call.requested)
           /\ push_call.requested => ~missing

\* C32 witness: with token, magic and certificate in place and APNs ready to
\* answer 200, the call returned failure without a request because the key
\* file is missing
C32_Witness ==
    /\ push_call.pc = "returned"
    /\ push_call.push_token # <<>> /\ push_call.push_magic # NoCred
    /\ push_call.apns = [cert |-> TRUE, key |-> FALSE, http |-> "200"]
    /\ ~push_call.requested /\ ~push_call.result

\* C40: there is at most one device record per UDID, also after two
\* Authenticate requests for the same unseen UDID that both found no record
C40_OneDevicePerUdid ==
    \A u \in UDIDs : Cardinality(DevicesByUdid(devices, u)) <= 1

\* C40 witness: of two Authenticate requests for an unseen UDID that both
\* found no record, the first has inserted its device and the second was
\* refused by the unique index
C40_Witness ==
    \E u \in UDIDs :
        /\ Cardinality(DevicesByUdid(devices, u)) = 1
        /\ response = Response(500, NoBody)
        /\ \A p \in CheckinSlots : checkins[p] = IdleCheckin

\* C38: a token attributes at most one device: every device that has an
\* owner from a token is the device that a token is linked to, and a token's
\* device identifier, once set, is never overwritten with another UDID
C38_TokenAttributesOneDevice ==
    /\ [](\A d \in devices :
             d.owner_id # NoRef => \E i \in DOMAIN tokens : tokens[i].device_udid = d.udid)
    /\ [][\A i \in DOMAIN tokens :
             tokens[i].device_udid # NoUdid
             => tokens'[i].device_udid = tokens[i].device_udid]_vars

\* C37: the commands created never outnumber the tokens consumed, whatever
\* the interleaving of TokenUpdate requests
C37_OneCommandPerToken ==
    Len(commands) <= Cardinality({i \in DOMAIN tokens : tokens[i].is_used})

\* C31: a push attempt is made only toward a device whose record is not
\* 'removed' and holds the credentials of a TokenUpdate, so none is made
\* after a CheckOut until a TokenUpdate supplies credentials again
C31_NoPushAfterCheckOut ==
    [][Len(pushes') > Len(pushes)
       => \A d \in DevicesByUdid(devices', pushes'[Len(pushes')].udid) :
             /\ d.status # "removed"
             /\ d.push_token = pushes'[Len(pushes')].push_token
             /\ d.push_magic = pushes'[Len(pushes')].push_magic]_vars
====
